---- MODULE Spec2Model ----
(***************************************************************************)
(* Model of flamingo.me/form: DefaultFormDataValidatorImpl.Validate        *)
(* (src/domain/formdata/validator.go) called concurrently on one shared    *)
(* instance, and the FormHandler pipeline that drives it.                  *)
(***************************************************************************)
EXTENDS Integers, Sequences, FiniteSets, TLC

\* ---------------------------------------------------------------- bounds
MaxFindings == 2   \* most findings one validatorProvider.Validate reports
MaxKeys == 1       \* most keys in a map[string]string form data
MaxExtensions == 2 \* most form extensions attached to one FormHandler

\* ------------------------------------------------------------ value sets
Calls == {"g1", "g2"}            \* goroutines calling Validate on one instance
NoValue == "none"
NilPtr == 0                      \* the nil *domain.ValidationInfo
NilErr == "nil"                  \* the nil error
Ctx == "ctx"                     \* the request context handed to Validate
Background == "background"       \* context.Background(), never an argument
Reqs == {"req"}                  \* *web.Request values handed to Validate
Providers == {"nil", "provider"} \* domain.ValidatorProvider interface values
FieldNames == {"firstname", "email"}
StructNames == {"formdata"}
Keys == 1..MaxKeys
Values == {"", "a"}

MapStringString == "map[string]string"
DynTypes == {"nil", MapStringString, "*map[string]string",
             "map[string][]string", "map[string]interface{}",
             "namedMap", "struct"}

\* contents of a map: a set of <<key, value>> pairs, one value per key
MapContents == {m \in SUBSET (Keys \X Values) :
                   \A a \in m, b \in m : a[1] = b[1] => a = b}

\* formData interface{} values: dynamic type, nil-ness of the value, entries
FormDatas ==
    {[dyn |-> MapStringString, isNil |-> TRUE, entries |-> {}]}
    \cup {[dyn |-> MapStringString, isNil |-> FALSE, entries |-> m] :
              m \in MapContents}
    \cup {[dyn |-> t, isNil |-> (t = "nil"), entries |-> {}] :
              t \in DynTypes \ {MapStringString}}

SeqsUpTo(S, n) == UNION {[1..k -> S] : k \in 0..n}

\* domain.ValidationInfo values: field errors and general (struct) errors
ValidationInfos ==
    {[fieldErrors |-> f, generalErrors |-> s] :
        f \in SeqsUpTo(FieldNames, MaxFindings),
        s \in SeqsUpTo(StructNames, MaxFindings)}

Findings(info) == Len(info.fieldErrors) + Len(info.generalErrors)

\* what one validatorProvider.Validate call can report
ProviderResults == {i \in ValidationInfos : Findings(i) <= MaxFindings}

\* domain.ValidationInfo.IsValid: no field error and no general error
IsValid(info) == Len(info.fieldErrors) = 0 /\ Len(info.generalErrors) = 0

VARIABLES
    pc,             \* position of each call: idle, entered, called, done, panic
    args,           \* arguments of each call (ctxDone: ctx was cancelled on entry)
    validationInfo, \* the local validationInfo of each call
    result,         \* what each call returned: [info: address, err]
    heap,           \* ValidationInfo objects allocated so far
    providerCalls,  \* per call, the validatorProvider.Validate invocations
    cancelled,      \* ctx.Done() is closed
    handler,        \* the built FormHandler: role bindings and extensions
    hpc,            \* phase of the request the FormHandler is handling
    hreq,           \* that request: entry point, method, submitted values
    hdata,          \* the data object of the Form under construction
    hinfo,          \* the ValidationInfo aggregated so far
    hnext,          \* index of the next extension to run
    htrace,         \* stages invoked for the request, in order
    hviolations,    \* rule violations found by the validators that ran
    form            \* the Form returned to the caller

validatorVars == <<pc, args, validationInfo, result, heap, providerCalls, cancelled>>
handlerVars == <<handler, hpc, hreq, hdata, hinfo, hnext, htrace, hviolations, form>>
vars == <<validatorVars, handlerVars>>

\* ------------------------------------------------- validator.go, Validate
M_TypeAssertNonNilMap(formData) ==
    formData.dyn = MapStringString /\ ~formData.isNil

M_TypeAssertUnderlyingMap(formData) ==
    formData.dyn \in {MapStringString, "namedMap"}

\* formData.(map[string]string): ok iff the dynamic type is exactly that type
TypeAssertMapStringString(formData) == formData.dyn = MapStringString

\* domain.ValidationInfo{}: the zero value
EmptyValidationInfo == [fieldErrors |-> <<>>, generalErrors |-> <<>>]

M_ProviderCallArgsBackground(ctx, req, formData) ==
    [ctx |-> Background, req |-> req, formData |-> formData]

\* arguments of validatorProvider.Validate(ctx, req, formData)
ProviderCallArgs(ctx, req, formData) ==
    [ctx |-> ctx, req |-> req, formData |-> formData]

M_NilAddress(h) == NilPtr

M_SharedAddress(h) == IF h = <<>> THEN Len(h) + 1 ELSE Len(h)

\* &x of a composite literal or of a local of this invocation: a new address
NewAddress(h) == Len(h) + 1

CtxCanceled == "context canceled"

M_ReturnedErrorOnInvalid(info) ==
    IF IsValid(info) THEN NilErr ELSE "validation failed"

M_ReturnedErrorOnCancel(info) ==
    IF cancelled THEN CtxCanceled ELSE NilErr

\* the error both return statements give
ReturnedError(info) == NilErr

M_ReturnedInfoEmpty(local) == EmptyValidationInfo

\* the value whose address the second return statement gives
ReturnedInfo(local) == local

\* the whole function, as a value: result for formData and the provider's answer
Validate(formData, providerResult) ==
    IF TypeAssertMapStringString(formData)
    THEN [info |-> EmptyValidationInfo, err |-> ReturnedError(EmptyValidationInfo)]
    ELSE [info |-> ReturnedInfo(providerResult), err |-> ReturnedError(providerResult)]

\* the handler CreateSimpleFormHandler builds: every role default, no extension
SimpleFormHandler ==
    [provider |-> "default", decoder |-> "default", validator |-> "default",
     extensions |-> <<>>]

\* handlers Build() can produce; an extension implements the validator role or not
FormHandlers ==
    [provider : {"default", "custom"}, decoder : {"default", "custom"},
     validator : {"default", "custom"},
     extensions : SeqsUpTo(BOOLEAN, MaxExtensions)]

InitValidator ==
    /\ pc = [g \in Calls |-> "idle"]
    /\ args = [g \in Calls |-> NoValue]
    /\ validationInfo = [g \in Calls |-> NoValue]
    /\ result = [g \in Calls |-> NoValue]
    /\ heap = <<>>
    /\ providerCalls = [g \in Calls |-> <<>>]
    /\ cancelled = FALSE

InitRequest ==
    /\ hpc = "idle"
    /\ hreq = NoValue
    /\ hdata = NoValue
    /\ hinfo = EmptyValidationInfo
    /\ hnext = 1
    /\ htrace = <<>>
    /\ hviolations = 0
    /\ form = NoValue

Init == InitValidator /\ InitRequest /\ handler = SimpleFormHandler

\* a goroutine calls p.Validate(ctx, req, validatorProvider, formData)
Invoke(g) ==
    /\ pc[g] = "idle"
    /\ \E req \in Reqs, vp \in Providers, fd \in FormDatas :
          args' = [args EXCEPT ![g] = [ctx |-> Ctx, req |-> req,
                                       validatorProvider |-> vp, formData |-> fd,
                                       ctxDone |-> cancelled]]
    /\ pc' = [pc EXCEPT ![g] = "entered"]
    /\ UNCHANGED <<validationInfo, result, heap, providerCalls, cancelled>>
    /\ UNCHANGED handlerVars

\* if _, ok := formData.(map[string]string); ok { return &ValidationInfo{}, nil }
ShortCircuit(g) ==
    /\ pc[g] = "entered"
    /\ TypeAssertMapStringString(args[g].formData)
    /\ heap' = Append(heap, EmptyValidationInfo)
    /\ result' = [result EXCEPT ![g] = [info |-> NewAddress(heap),
                                        err |-> ReturnedError(EmptyValidationInfo)]]
    /\ pc' = [pc EXCEPT ![g] = "done"]
    /\ UNCHANGED <<args, validationInfo, providerCalls, cancelled>>
    /\ UNCHANGED handlerVars

\* validationInfo := validatorProvider.Validate(ctx, req, formData)
CallProvider(g) ==
    /\ pc[g] = "entered"
    /\ ~TypeAssertMapStringString(args[g].formData)
    /\ args[g].validatorProvider # "nil"
    /\ \E r \in ProviderResults :
          /\ providerCalls' = [providerCalls EXCEPT ![g] =
                Append(@, [args |-> ProviderCallArgs(args[g].ctx, args[g].req,
                                                     args[g].formData),
                           ctxDone |-> cancelled, ret |-> r])]
          /\ validationInfo' = [validationInfo EXCEPT ![g] = r]
    /\ pc' = [pc EXCEPT ![g] = "called"]
    /\ UNCHANGED <<args, result, heap, cancelled>>
    /\ UNCHANGED handlerVars

\* the same statement on a nil interface value: nil pointer dereference
NilProviderPanic(g) ==
    /\ pc[g] = "entered"
    /\ ~TypeAssertMapStringString(args[g].formData)
    /\ args[g].validatorProvider = "nil"
    /\ pc' = [pc EXCEPT ![g] = "panic"]
    /\ UNCHANGED <<args, validationInfo, result, heap, providerCalls, cancelled>>
    /\ UNCHANGED handlerVars

\* return &validationInfo, nil
Return(g) ==
    /\ pc[g] = "called"
    /\ heap' = Append(heap, ReturnedInfo(validationInfo[g]))
    /\ result' = [result EXCEPT ![g] = [info |-> NewAddress(heap),
                                        err |-> ReturnedError(validationInfo[g])]]
    /\ pc' = [pc EXCEPT ![g] = "done"]
    /\ UNCHANGED <<args, validationInfo, providerCalls, cancelled>>
    /\ UNCHANGED handlerVars

\* the request context is cancelled, before or while a call runs
Cancel ==
    /\ ~cancelled
    /\ cancelled' = TRUE
    /\ UNCHANGED <<pc, args, validationInfo, result, heap, providerCalls>>
    /\ UNCHANGED handlerVars

Next ==
    \/ \E g \in Calls : Invoke(g)
    \/ \E g \in Calls : ShortCircuit(g)
    \/ \E g \in Calls : CallProvider(g)
    \/ \E g \in Calls : NilProviderPanic(g)
    \/ \E g \in Calls : Return(g)
    \/ Cancel

Spec == Init /\ [][Next]_vars

\* ------------------------------------------------------------ FormHandler
Methods == {"GET", "POST"}
EntryPoints == {"HandleForm", "HandleUnsubmittedForm", "HandleSubmittedForm"}

M_EmptyMapFromRequest ==
    [dyn |-> MapStringString, isNil |-> FALSE, entries |-> hreq.values]

\* the data object the default provider gives: an empty string-keyed map
EmptyMap == [dyn |-> MapStringString, isNil |-> FALSE, entries |-> {}]

\* a custom-typed data object
CustomData == [dyn |-> "struct", isNil |-> FALSE, entries |-> {}]

\* the string-keyed mapping of the raw submitted values
RawValues(values) == [dyn |-> MapStringString, isNil |-> FALSE, entries |-> values]

M_FirstPhaseIgnoresMethod(entry, method) ==
    IF entry = "HandleUnsubmittedForm" THEN "provide" ELSE "decode"

\* HandleForm branches on the method: GET provides, POST decodes and validates
FirstPhase(entry, method) ==
    CASE entry = "HandleUnsubmittedForm" -> "provide"
      [] entry = "HandleSubmittedForm" -> "decode"
      [] OTHER -> IF method = "POST" THEN "decode" ELSE "provide"

\* what the validator role of an extension can report: general errors only
ExtensionResults == {i \in ProviderResults : i.fieldErrors = <<>>}

\* findings of two ValidationInfo, united: the earlier ones first
Merge(a, b) ==
    [fieldErrors |-> a.fieldErrors \o b.fieldErrors,
     generalErrors |-> a.generalErrors \o b.generalErrors]

\* the data object a successful decode gives
DecodedData(h, values) ==
    IF h.provider = "custom" \/ h.decoder = "custom"
    THEN CustomData
    ELSE RawValues(values)

\* the caller invokes one of the three Handle methods with a request
Handle(entry) ==
    /\ hpc = "idle"
    /\ \E m \in Methods, v \in MapContents :
          /\ hreq' = [entry |-> entry, method |-> m, values |-> v]
          /\ hpc' = FirstPhase(entry, m)
    /\ UNCHANGED <<handler, hdata, hinfo, hnext, htrace, hviolations, form>>
    /\ UNCHANGED validatorVars

\* phase 1: the provider's GetFormData gives the data of an unsubmitted Form
Provide ==
    /\ hpc = "provide"
    /\ htrace' = Append(htrace, "provide")
    /\ \E outcome \in (IF handler.provider = "custom"
                        THEN {"data", "none", "error"} ELSE {"none"}) :
          IF outcome = "error"
          THEN /\ hpc' = "error"
               /\ UNCHANGED <<hdata, form>>
          ELSE /\ hdata' = IF outcome = "data" THEN CustomData ELSE EmptyMap
               /\ form' = [data |-> hdata', isSubmitted |-> FALSE,
                           validationInfo |-> EmptyValidationInfo]
               /\ hpc' = "done"
    /\ UNCHANGED <<handler, hreq, hinfo, hnext, hviolations>>
    /\ UNCHANGED validatorVars

\* phase 2: the decoder populates the data object, or the pipeline aborts
Decode ==
    /\ hpc = "decode"
    /\ htrace' = Append(htrace, "decode")
    /\ \/ /\ hdata' = DecodedData(handler, hreq.values)
          /\ hpc' = "validate"
       \/ /\ hpc' = "error"
          /\ UNCHANGED hdata
    /\ UNCHANGED <<handler, hreq, hinfo, hnext, hviolations, form>>
    /\ UNCHANGED validatorVars

\* phase 3: the configured validator runs; the default one is Validate above
ValidateMain ==
    /\ hpc = "validate"
    /\ htrace' = Append(htrace, "validate")
    /\ \E r \in ProviderResults :
          LET res == IF handler.validator = "default"
                     THEN Validate(hdata, r)
                     ELSE [info |-> r, err |-> NilErr]
              found == IF handler.validator = "default" /\ hdata.dyn = MapStringString
                       THEN 0 ELSE Findings(r)
          IN IF res.err # NilErr
             THEN /\ hpc' = "error"
                  /\ UNCHANGED <<hinfo, hviolations>>
             ELSE /\ hinfo' = Merge(hinfo, res.info)
                  /\ hviolations' = hviolations + found
                  /\ hpc' = "extensions"
    /\ UNCHANGED <<handler, hreq, hdata, hnext, form>>
    /\ UNCHANGED validatorVars

\* phase 3, continued: the next extension runs if it implements the validator role
ValidateExtension ==
    /\ hpc = "extensions"
    /\ hnext <= Len(handler.extensions)
    /\ hnext' = hnext + 1
    /\ IF handler.extensions[hnext]
       THEN /\ htrace' = Append(htrace, "extension")
            /\ \E r \in ExtensionResults :
                  /\ hinfo' = Merge(hinfo, r)
                  /\ hviolations' = hviolations + Findings(r)
       ELSE UNCHANGED <<htrace, hinfo, hviolations>>
    /\ UNCHANGED <<handler, hpc, hreq, hdata, form>>
    /\ UNCHANGED validatorVars

\* the Form of a submitted request is returned
ReturnSubmitted ==
    /\ hpc = "extensions"
    /\ hnext > Len(handler.extensions)
    /\ form' = [data |-> hdata, isSubmitted |-> TRUE, validationInfo |-> hinfo]
    /\ hpc' = "done"
    /\ UNCHANGED <<handler, hreq, hdata, hinfo, hnext, htrace, hviolations>>
    /\ UNCHANGED validatorVars

InitHandler == InitValidator /\ InitRequest /\ handler \in FormHandlers

NextHandler ==
    \/ \E e \in EntryPoints : Handle(e)
    \/ Provide
    \/ Decode
    \/ ValidateMain
    \/ ValidateExtension
    \/ ReturnSubmitted

SpecHandler == InitHandler /\ [][NextHandler]_vars

TypeOK ==
    /\ pc \in [Calls -> {"idle", "entered", "called", "done", "panic"}]
    /\ cancelled \in BOOLEAN
    /\ \A g \in Calls : pc[g] = "done" => result[g].info \in 1..Len(heap)
\* ------------------------------------------------------ claims on Validate
Started(g) == pc[g] # "idle"
Returned(g) == pc[g] = "done"
IsStringMap(g) == args[g].formData.dyn = MapStringString
Info(g) == heap[result[g].info]

\* C1: a call whose formData has dynamic type map[string]string never invokes
\* validatorProvider.Validate, never panics, and returns an empty ValidationInfo
\* (valid, zero findings) with a nil error, whatever the map holds and whatever
\* ctx, req and validatorProvider are.
C1_StringMapShortCircuits ==
    \A g \in Calls :
        (Started(g) /\ IsStringMap(g)) =>
            /\ providerCalls[g] = <<>>
            /\ pc[g] \in {"entered", "done"}
            /\ Returned(g) =>
                  /\ result[g].info \in DOMAIN heap
                  /\ Info(g).fieldErrors = <<>>
                  /\ Info(g).generalErrors = <<>>
                  /\ IsValid(Info(g))
                  /\ result[g].err = NilErr

C1_Witness ==
    \E g \in Calls :
        /\ Returned(g) /\ IsStringMap(g)
        /\ args[g].formData.entries # {}
        /\ args[g].validatorProvider = "nil"

\* C2: every call that returns gives a nil error, also when the ValidationInfo
\* it returns carries field or struct errors.
C2_NilErrorAlways ==
    \A g \in Calls : Returned(g) => result[g].err = NilErr

C2_Witness ==
    \E g \in Calls :
        /\ Returned(g)
        /\ Info(g).fieldErrors # <<>>
        /\ Info(g).generalErrors # <<>>
        /\ result[g].err = NilErr

\* C3: a call whose formData is not a map[string]string and that returns has
\* invoked validatorProvider.Validate exactly once, with its own ctx, req and
\* formData, and the ValidationInfo it returns equals what that invocation
\* returned, finding for finding and in the same order.
C3_ProviderResultPassedThrough ==
    \A g \in Calls :
        /\ Len(providerCalls[g]) <= 1
        /\ (Returned(g) /\ ~IsStringMap(g)) =>
              /\ Len(providerCalls[g]) = 1
              /\ providerCalls[g][1].args.ctx = args[g].ctx
              /\ providerCalls[g][1].args.req = args[g].req
              /\ providerCalls[g][1].args.formData = args[g].formData
              /\ Info(g) = providerCalls[g][1].ret

C3_Witness ==
    \E g \in Calls :
        /\ Returned(g) /\ ~IsStringMap(g)
        /\ Info(g).fieldErrors = <<"email", "firstname">>
        /\ providerCalls[g][1].ret = Info(g)

\* the context was cancelled when it was passed, or before the provider ran
SawCancellation(g) ==
    \/ args[g].ctxDone
    \/ providerCalls[g] # <<>> /\ providerCalls[g][1].ctxDone

\* C4 as stated: a call whose context was cancelled on entry or while it ran
\* returns a context-cancellation error.
C4_Original_FailsFastOnCancel ==
    \A g \in Calls :
        (Returned(g) /\ SawCancellation(g)) => result[g].err = CtxCanceled

\* C4 amended: a call whose context was cancelled on entry or while it ran
\* does not observe the cancellation: it hands the same ctx to the provider and
\* returns what it returns for a live context, a ValidationInfo with a nil
\* error, and the results of the calls that returned are left intact.
C4_CancellationNotObserved ==
    \A g \in Calls :
        (Returned(g) /\ SawCancellation(g)) =>
            /\ result[g].err = NilErr
            /\ result[g].info \in DOMAIN heap
            /\ \A c \in 1..Len(providerCalls[g]) :
                  providerCalls[g][c].args.ctx = args[g].ctx
            /\ \A h \in Calls :
                  Returned(h) =>
                     Info(h) = IF IsStringMap(h)
                               THEN [fieldErrors |-> <<>>, generalErrors |-> <<>>]
                               ELSE providerCalls[h][1].ret

C4_Witness ==
    \E g \in Calls, h \in Calls :
        /\ g # h
        /\ Returned(g) /\ args[g].ctxDone /\ IsStringMap(g)
        /\ Returned(h) /\ ~args[h].ctxDone
        /\ providerCalls[h] # <<>> /\ providerCalls[h][1].ctxDone
        /\ ~IsValid(Info(h))

\* the call returned without reaching the provider
ShortCircuited(g) == Returned(g) /\ providerCalls[g] = <<>>

\* C8: once past the type assertion, a call is short-circuited exactly when the
\* dynamic type of formData is map[string]string (a nil map included); with any
\* other value it goes to validatorProvider.Validate (a panic when the provider
\* is nil), whatever the value's nil-ness or contents.
C8_ShortCircuitByDynamicTypeOnly ==
    \A g \in Calls :
        pc[g] \in {"called", "done", "panic"} =>
            /\ ShortCircuited(g) <=> args[g].formData.dyn = MapStringString
            /\ args[g].formData.dyn # MapStringString =>
                  IF args[g].validatorProvider = "nil"
                  THEN pc[g] = "panic"
                  ELSE /\ Len(providerCalls[g]) = 1
                       /\ providerCalls[g][1].args.formData = args[g].formData

C8_Witness ==
    \E g \in Calls, h \in Calls :
        /\ ShortCircuited(g)
        /\ args[g].formData.dyn = MapStringString /\ args[g].formData.isNil
        /\ Returned(h) /\ ~ShortCircuited(h)
        /\ args[h].formData.dyn = "namedMap"

\* C9: every call that returns gives a non-nil pointer to an allocated
\* ValidationInfo.
C9_ResultNeverNil ==
    \A g \in Calls :
        Returned(g) => result[g].info # NilPtr /\ result[g].info \in DOMAIN heap

C9_Witness ==
    \E g \in Calls, h \in Calls :
        /\ Returned(g) /\ IsStringMap(g)
        /\ Returned(h) /\ ~IsStringMap(h) /\ IsValid(Info(h))
        /\ result[g].info # NilPtr /\ result[h].info # NilPtr

\* what a call returns, from its own arguments and its own provider answer
OwnResult(g) ==
    IF IsStringMap(g) THEN [fieldErrors |-> <<>>, generalErrors |-> <<>>]
    ELSE providerCalls[g][1].ret

\* no step changes the arguments of a started call, a stored result or an
\* allocated ValidationInfo
NothingOverwritten ==
    /\ \A g \in Calls : Started(g) => args'[g] = args[g]
    /\ \A g \in Calls : Returned(g) => result'[g] = result[g]
    /\ \A a \in DOMAIN heap : a \in DOMAIN heap' /\ heap'[a] = heap[a]

\* C10: under every interleaving of the calls on the one instance, two calls
\* that returned hold different ValidationInfo objects, each holding the result
\* of its own call, and no step of any call changes another call's arguments
\* (formData included), result or ValidationInfo.
C10_CallsAreIndependent ==
    /\ [](\A g \in Calls, h \in Calls :
            (Returned(g) /\ Returned(h)) =>
                /\ g # h => result[g].info # result[h].info
                /\ Info(g) = OwnResult(g))
    /\ [][NothingOverwritten]_vars

C10_Witness ==
    \E g \in Calls, h \in Calls :
        /\ g # h /\ Returned(g) /\ Returned(h)
        /\ ~IsStringMap(g) /\ ~IsStringMap(h)
        /\ args[g].formData = args[h].formData
        /\ Info(g) # Info(h)
\* --------------------------------------------------- claims on FormHandler
Handling == hpc # "idle"
Count(tr, stage) == Cardinality({i \in DOMAIN tr : tr[i] = stage})
ValidatorExtensions ==
    Cardinality({i \in DOMAIN handler.extensions : handler.extensions[i]})

\* C5: HandleForm on a GET request invokes the provider only, never the decoder
\* or a validator, and returns a Form with IsSubmitted false; on a POST request
\* it invokes the decoder, then the validator, then extensions, never provide
\* and never an earlier phase again, and returns a Form with IsSubmitted true.
C5_HandleFormBranchesOnMethod ==
    (Handling /\ hreq.entry = "HandleForm") =>
        IF hreq.method = "GET"
        THEN /\ \A i \in DOMAIN htrace : htrace[i] = "provide"
             /\ Len(htrace) <= 1
             /\ hpc \in {"provide", "done", "error"}
             /\ hpc = "done" => htrace = <<"provide">> /\ ~form.isSubmitted
        ELSE /\ \A i \in DOMAIN htrace :
                   htrace[i] = CASE i = 1 -> "decode"
                                 [] i = 2 -> "validate"
                                 [] OTHER -> "extension"
             /\ hpc \in {"decode", "validate", "extensions", "done", "error"}
             /\ hpc = "done" => Len(htrace) >= 2 /\ form.isSubmitted

C5_Witness ==
    /\ hpc = "done" /\ hreq.entry = "HandleForm" /\ hreq.method = "POST"
    /\ htrace = <<"decode", "validate", "extension">>
    /\ form.isSubmitted

\* C6: the Form of an unsubmitted request handled with the default provider
\* has an empty string-keyed map as Data and IsSubmitted false.
C6_UnsubmittedDefaultIsEmptyMap ==
    (hpc = "done" /\ htrace = <<"provide">> /\ handler.provider = "default") =>
        /\ form.data.dyn = MapStringString
        /\ form.data.entries = {}
        /\ ~form.isSubmitted

C6_Witness ==
    /\ hpc = "done" /\ htrace = <<"provide">> /\ handler.provider = "default"
    /\ hreq.method = "GET" /\ hreq.values # {}
    /\ form.data.entries = {}

====
